---- MODULE Spec2Model ----
(* A model of nautilus-app-bundle.py: the prompt ledger, the descriptor       *)
(* parser, the bundle installer and the launch controller with its install   *)
(* dialog, over a small file system.                                          *)
(*                                                                            *)
(* A string of the program (a path, a file's text) is a sequence of tokens:   *)
(* the separator "/", the line break "\n", "=" and whole names.  A file's     *)
(* text is a sequence of lines, except the ledger, whose text is kept as the  *)
(* flat token sequence that is written and split again on reading.            *)
EXTENDS Integers, Sequences, FiniteSets, Bags, TLC

VARIABLES
    fs,       \* the file system: path -> [kind, mode, data]
    ledger,   \* PROMPTED_APPS_FILE: [exists, text]
    dialogs,  \* the open InstallDialogs, a bag of their self.app_path
    events    \* what the last handler did, in order: <<[op, arg, cwd], ...>>

vars == <<fs, ledger, dialogs, events>>

\* ---------------------------------------------------------------- bounds

\* InstallDialogs open at the same time.
MaxDialogs == 2

\* Lines the ledger may hold before the dialogs' handlers are cut off.
MaxMarks == 2

\* ------------------------------------------------------- os.path and strings

SLASH == "/"
NL == "\n"

\* The characters str.strip() removes, as tokens.
Whitespace == {" ", "\n", "\t", "\r"}

isabs(p) == Len(p) > 0 /\ p[1] = SLASH

join(a, b) ==
    IF isabs(b) THEN b
    ELSE IF a = <<>> \/ a[Len(a)] = SLASH THEN a \o b
    ELSE a \o <<SLASH>> \o b

LastSlash(p) ==
    LET S == {i \in 1..Len(p) : p[i] = SLASH}
    IN IF S = {} THEN 0 ELSE CHOOSE i \in S : \A j \in S : j <= i

basename(p) == SubSeq(p, LastSlash(p) + 1, Len(p))

RECURSIVE rstripSlash(_)
rstripSlash(p) ==
    IF Len(p) > 0 /\ p[Len(p)] = SLASH THEN rstripSlash(SubSeq(p, 1, Len(p) - 1))
    ELSE p

dirname(p) ==
    LET head == SubSeq(p, 1, LastSlash(p))
    IN IF rstripSlash(head) = <<>> THEN head ELSE rstripSlash(head)

\* The path the kernel looks up: a trailing separator is dropped.
Norm(p) == IF rstripSlash(p) = <<>> /\ Len(p) > 0 THEN <<SLASH>> ELSE rstripSlash(p)

IsPrefix(a, b) == Len(a) <= Len(b) /\ SubSeq(b, 1, Len(a)) = a

\* q lies strictly below the directory d.
Under(d, q) == IsPrefix(d \o <<SLASH>>, q) /\ Len(q) > Len(d) + 1

\* str.endswith('.app') and str.endswith('.desktop') on the last token of a name.
AppNames == {"Foo.app", "Bar.app", "Nox.app", "Emp.app", "Bad.app", "New.app", "Gone.app"}
DesktopNames == {"foo.desktop", "usb.desktop", "nox.desktop", "emp.desktop",
                 "bad.desktop", "new.desktop", "gone.desktop"}

endswith_app(name) == Len(name) > 0 /\ name[Len(name)] \in AppNames
endswith_desktop(name) == Len(name) > 0 /\ name[Len(name)] \in DesktopNames

\* ------------------------------------------------------------ the file system

Dir == [kind |-> "dir", mode |-> "755", data |-> <<>>]
File(mode, data) == [kind |-> "file", mode |-> mode, data |-> data]

exists(f, p) ==
    /\ p # <<>>
    /\ Norm(p) \in DOMAIN f
    /\ (p[Len(p)] = SLASH => f[Norm(p)].kind = "dir")

isdir(f, p) == exists(f, p) /\ f[Norm(p)].kind = "dir"

\* The directories os.makedirs(p, exist_ok=True) makes sure of: p and the ones above it.
Ancestors(p) ==
    {<<SLASH>>} \cup
    {SubSeq(p, 1, i) : i \in {j \in 1..Len(p) :
        p[j] # SLASH /\ (j = Len(p) \/ p[j + 1] = SLASH)}}

makedirs(f, p) == [q \in Ancestors(p) \ DOMAIN f |-> Dir] @@ f

\* The entries below p.
Desc(f, p) == {q \in DOMAIN f : Under(p, q)}

\* os.listdir(p): the names directly in p.
listdir(f, p) ==
    {SubSeq(q, Len(p) + 2, Len(q)) : q \in {r \in Desc(f, p) : LastSlash(r) = Len(p) + 1}}

Restrict(f, S) == [q \in S |-> f[q]]

\* shutil.rmtree(p) that ends well.
rmtree(f, p) == Restrict(f, {q \in DOMAIN f : q # p /\ ~Under(p, q)})

\* shutil.rmtree(p) that raises: p is left with the entries of `kept` below it.
rmtree_partial(f, p, kept) ==
    Restrict(f, {q \in DOMAIN f : ~Under(p, q) \/ SubSeq(q, Len(p) + 1, Len(q)) \in kept})

\* The part of shutil.copytree(src, dst) that lands: dst itself and the entries of
\* `rels` (paths relative to src), with the data and the mode of their originals.
copy_image(f, src, dst, rels) ==
    LET S == {src} \cup {q \in Desc(f, src) : SubSeq(q, Len(src) + 1, Len(q)) \in rels}
    IN [q \in {dst \o SubSeq(s, Len(src) + 1, Len(s)) : s \in S}
            |-> f[src \o SubSeq(q, Len(dst) + 1, Len(q))]] @@ f

\* The paths of the entries below p, relative to p.
Rels(f, p) == {SubSeq(q, Len(p) + 1, Len(q)) : q \in Desc(f, p)}

\* shutil.copytree(src, dst) that ends well.
copytree(f, src, dst) == copy_image(f, src, dst, Rels(f, src))

\* os.chmod(p, 0o755).
chmod(f, p) == [f EXCEPT ![Norm(p)].mode = "755"]

\* ------------------------------------------------------------ fixed locations

\* os.path.expanduser("~").
HOME == <<SLASH, "home">>

PROMPTED_APPS_FILE == HOME \o <<SLASH, ".config", SLASH, "nautilus-app-bundle-prompted.txt">>

\* expanduser("~/Applications") and expanduser("~/.local/share/applications").
APPLICATIONS_DIR == HOME \o <<SLASH, "Applications">>
REGISTRY_DIR == HOME \o <<SLASH, ".local", SLASH, "share", SLASH, "applications">>

\* ------------------------------------------------------------ the prompt ledger

RECURSIVE lstrip(_)
lstrip(s) == IF Len(s) > 0 /\ s[1] \in Whitespace THEN lstrip(Tail(s)) ELSE s

RECURSIVE rstrip(_)
rstrip(s) ==
    IF Len(s) > 0 /\ s[Len(s)] \in Whitespace THEN rstrip(SubSeq(s, 1, Len(s) - 1)) ELSE s

strip(s) == lstrip(rstrip(s))

\* f.readlines(): the text cut after each line break; the lines, as a set.
RECURSIVE readlines(_)
readlines(t) ==
    IF t = <<>> THEN {}
    ELSE LET B == {i \in 1..Len(t) : t[i] = NL}
         IN IF B = {} THEN {t}
            ELSE LET i == CHOOSE k \in B : \A j \in B : k <= j
                 IN {SubSeq(t, 1, i)} \cup readlines(SubSeq(t, i + 1, Len(t)))

get_prompted_apps(l) ==
    IF ~l.exists THEN {} ELSE {strip(line) : line \in readlines(l.text)}

\* The line break after the path left out.
mark_app_prompted_unterminated(l, app_path) ==
    [exists |-> TRUE, text |-> l.text \o app_path]

\* The ledger opened with 'w' in place of 'a'.
mark_app_prompted_truncating(l, app_path) ==
    [exists |-> TRUE, text |-> app_path \o <<NL>>]

\* open(PROMPTED_APPS_FILE, 'a'); f.write(app_path + '\n').
mark_app_prompted(l, app_path) ==
    [exists |-> TRUE, text |-> l.text \o app_path \o <<NL>>]

\* os.makedirs(os.path.dirname(PROMPTED_APPS_FILE), exist_ok=True).
mark_app_prompted_dirs(f) == makedirs(f, dirname(PROMPTED_APPS_FILE))

\* The lines the ledger holds.
Marks(l) == Cardinality({i \in 1..Len(l.text) : l.text[i] = NL})

\* ------------------------------------------------------------ the descriptor parser

SECTION == <<"[Desktop Entry]">>

\* for filename in os.listdir(app_path): if filename.endswith('.desktop'): return it.
first_desktop(app_path, names) ==
    IF names = {} THEN <<>> ELSE join(app_path, CHOOSE n \in names : TRUE)

get_desktop_file_path(f, app_path) ==
    IF ~isdir(f, app_path) THEN <<>>
    ELSE first_desktop(app_path, {n \in listdir(f, app_path) : endswith_desktop(n)})

\* entry.get(key, default) on the lines of the [Desktop Entry] section.
entry_value(lines, K, default) ==
    IF K = {} THEN default
    ELSE SubSeq(lines[CHOOSE k \in K : TRUE], 3, Len(lines[CHOOSE k \in K : TRUE]))

entry_get(lines, key, default) ==
    entry_value(lines,
                {i \in 2..Len(lines) :
                    Len(lines[i]) >= 2 /\ lines[i][1] = key /\ lines[i][2] = "="},
                default)

\* None.
NoInfo ==
    [some |-> FALSE, Name |-> <<>>, Exec |-> <<>>, Icon |-> <<>>, Terminal |-> <<>>,
     Categories |-> <<>>, Type |-> <<>>, StartupNotify |-> <<>>]

\* config.read(desktop_file): what is read of a file that is missing or no file is
\* nothing.
read_lines(f, desktop_file) ==
    IF desktop_file = <<>> THEN <<>>
    ELSE IF f[desktop_file].kind = "file" THEN f[desktop_file].data ELSE <<>>

\* None when there is no [Desktop Entry] section, or when configparser raises on
\* lines that come before any section.
parse_lines(lines) ==
    IF lines = <<>> THEN NoInfo
    ELSE IF lines[1] # SECTION THEN NoInfo
    ELSE [some |-> TRUE,
          Name |-> entry_get(lines, "Name", <<>>),
          Exec |-> entry_get(lines, "Exec", <<>>),
          Icon |-> entry_get(lines, "Icon", <<>>),
          Terminal |-> entry_get(lines, "Terminal", <<"false">>),
          Categories |-> entry_get(lines, "Categories", <<"Application;">>),
          Type |-> entry_get(lines, "Type", <<"Application">>),
          StartupNotify |-> entry_get(lines, "StartupNotify", <<"true">>)]

parse_desktop_file(f, app_path) ==
    parse_lines(read_lines(f, get_desktop_file_path(f, app_path)))

\* file.is_directory() and the name ends with '.app' and a descriptor is found.
is_app_bundle(f, app_path) ==
    /\ isdir(f, app_path)
    /\ endswith_app(basename(app_path))
    /\ get_desktop_file_path(f, app_path) # <<>>

\* None is <<>>, as is the empty string: the callers test `not exec_path`.
exec_of(app_path, desktop_info) ==
    IF ~desktop_info.some THEN <<>>
    ELSE IF desktop_info.Exec = <<>> THEN <<>>
    ELSE join(app_path, desktop_info.Exec)

get_app_exec_path(f, app_path) == exec_of(app_path, parse_desktop_file(f, app_path))

\* ------------------------------------------------------------ what a handler did

Ev(op, arg) == [op |-> op, arg |-> arg, cwd |-> <<>>, fault |-> "none"]

\* message_alert(heading, body): the dialog the user is shown.
message_alert(heading, body) == Ev("message_alert", <<heading, body>>)

\* subprocess.Popen([exec_path], cwd=os.path.dirname(exec_path)); when Popen raises,
\* no process exists and the handler reports it.
Popen(exec_path, started) ==
    IF started
    THEN <<[op |-> "Popen", arg |-> exec_path, cwd |-> dirname(exec_path), fault |-> "none"]>>
    ELSE <<[op |-> "Popen_raised", arg |-> exec_path, cwd |-> dirname(exec_path),
            fault |-> "none"],
           message_alert("Launch Error", "Failed to launch application")>>

\* ------------------------------------------------------------ the bundle installer

\* The step of install_app_bundle the environment makes raise.
InstallFaults ==
    {"none", "makedirs", "rmtree", "copytree_mkdir", "copytree", "open", "write", "chmod"}

\* dest_app_path = os.path.join(applications_dir, app_name)
dest_path(app_name) == join(APPLICATIONS_DIR, app_name)

\* The path resolved against the source tree.
install_exec_path_source(source_app_path, dest_app_path, exec) == join(source_app_path, exec)

\* if not os.path.isabs(exec_path): exec_path = os.path.join(dest_app_path, exec_path)
install_exec_path(source_app_path, dest_app_path, exec) == join(dest_app_path, exec)

install_icon_path(source_app_path, dest_app_path, icon) ==
    IF icon # <<>> /\ ~isabs(icon) THEN join(dest_app_path, icon)
    ELSE IF icon = <<>> THEN <<"application-x-executable">>
    ELSE icon

desktop_content(desktop_info, exec_path, icon_path) ==
    <<SECTION,
      <<"Type", "=">> \o desktop_info.Type,
      <<"Name", "=">> \o desktop_info.Name,
      <<"Exec", "=">> \o exec_path,
      <<"Icon", "=">> \o icon_path,
      <<"Terminal", "=">> \o desktop_info.Terminal,
      <<"Categories", "=">> \o desktop_info.Categories,
      <<"StartupNotify", "=">> \o desktop_info.StartupNotify>>

\* os.path.expanduser(f"~/.local/share/applications/{desktop_file_name}")
registry_path(original_desktop_file) == join(REGISTRY_DIR, basename(original_desktop_file))

\* open(path, 'w') and f.write(text): a new file, or the old one's text replaced.
write_file(f, path, text) ==
    IF path \in DOMAIN f THEN [f EXCEPT ![path].data = text]
    ELSE (path :> File("644", text)) @@ f

\* The except clause: the alert, and False.  `fault` is the step the environment made
\* raise, "none" when the step raised with no help of the environment.
InstallFailed(f, file, fault) ==
    [ok |-> FALSE, fs |-> f,
     events |-> <<[op |-> "install_False", arg |-> file, cwd |-> <<>>, fault |-> fault],
                  message_alert("Installation Error", "Failed to install application")>>]

InstallDone(f, file) ==
    [ok |-> TRUE, fs |-> f,
     events |-> <<[op |-> "install_True", arg |-> file, cwd |-> <<>>, fault |-> "none"]>>]

\* if os.path.exists(exec_path): os.chmod(exec_path, 0o755); return True
install_chmod(f, file, exec_path, fault) ==
    IF ~exists(f, exec_path) THEN InstallDone(f, file)
    ELSE IF fault = "chmod" THEN InstallFailed(f, file, fault)
    ELSE InstallDone(chmod(f, exec_path), file)

\* os.makedirs(os.path.dirname(desktop_file_path)); open(..., 'w'); f.write(...)
install_write(f, file, desktop_file_path, content, exec_path, fault) ==
    IF fault = "open" THEN InstallFailed(f, file, fault)
    ELSE IF fault = "write"
    THEN InstallFailed(write_file(f, desktop_file_path, <<>>), file, fault)
    ELSE install_chmod(write_file(f, desktop_file_path, content), file, exec_path, fault)

\* The registry descriptor, from the source descriptor's name and fields.
install_register(f, file, dest_app_path, desktop_info, fault) ==
    install_write(
        makedirs(f, dirname(registry_path(get_desktop_file_path(f, file)))),
        file,
        registry_path(get_desktop_file_path(f, file)),
        desktop_content(desktop_info,
                        install_exec_path(file, dest_app_path, desktop_info.Exec),
                        install_icon_path(file, dest_app_path, desktop_info.Icon)),
        install_exec_path(file, dest_app_path, desktop_info.Exec),
        fault)

\* shutil.copytree(source_app_path, dest_app_path): raises at once when the source is
\* no directory; a half-done copy leaves the entries of `kept`.
install_copy(f, file, dest_app_path, desktop_info, fault, kept) ==
    IF ~isdir(f, file) THEN InstallFailed(f, file, "none")
    ELSE IF fault = "copytree_mkdir" THEN InstallFailed(f, file, fault)
    ELSE IF fault = "copytree"
    THEN InstallFailed(copy_image(f, file, dest_app_path, kept), file, fault)
    ELSE install_register(copytree(f, file, dest_app_path), file, dest_app_path,
                          desktop_info, fault)

\* The old destination left in place and copied over.
install_remove_merging(f, file, dest_app_path, desktop_info, fault, kept) ==
    install_copy(f, file, dest_app_path, desktop_info, fault, kept)

\* if os.path.exists(dest_app_path): shutil.rmtree(dest_app_path)
install_remove(f, file, dest_app_path, desktop_info, fault, kept) ==
    IF ~exists(f, dest_app_path)
    THEN install_copy(f, file, dest_app_path, desktop_info, fault, kept)
    ELSE IF fault = "rmtree"
    THEN InstallFailed(rmtree_partial(f, dest_app_path, kept), file, fault)
    ELSE install_copy(rmtree(f, dest_app_path), file, dest_app_path, desktop_info,
                      fault, kept)

\* The try block, from os.makedirs(applications_dir, exist_ok=True) on.
install_try(f, file, desktop_info, fault, kept) ==
    IF fault = "makedirs" THEN InstallFailed(f, file, fault)
    ELSE install_remove(makedirs(f, APPLICATIONS_DIR), file, dest_path(basename(file)),
                        desktop_info, fault, kept)

\* if not desktop_info: alert, return False
install_parsed(f, file, desktop_info, fault, kept) ==
    IF ~desktop_info.some
    THEN [ok |-> FALSE, fs |-> f,
          events |-> <<Ev("install_False", file),
                       message_alert("Installation Error",
                                     "Failed to read .desktop file from app bundle")>>]
    ELSE install_try(f, file, desktop_info, fault, kept)

install_app_bundle(f, file, fault, kept) ==
    install_parsed(f, file, parse_desktop_file(f, file), fault, kept)

\* ------------------------------------------------------------ the launch controller

\* The try block of launch_app and launch_installed_app: chmod, then Popen; either
\* one raising is reported.
start_process(f, exec_path, chmod_ok, popen_ok) ==
    IF exec_path = <<>> THEN [fs |-> f, events |-> <<>>]
    ELSE IF ~exists(f, exec_path) THEN [fs |-> f, events |-> <<>>]
    ELSE IF ~chmod_ok
    THEN [fs |-> f,
          events |-> <<message_alert("Launch Error", "Failed to launch application")>>]
    ELSE [fs |-> chmod(f, exec_path), events |-> Popen(exec_path, popen_ok)]

\* InstallDialog.launch_app: from the original location.
launch_app(f, app_path, chmod_ok, popen_ok) ==
    start_process(f, get_app_exec_path(f, app_path), chmod_ok, popen_ok)

\* The original location in place of the installed one.
installed_app_path_source(file) == file

\* os.path.expanduser(f"~/Applications/{self.file.get_name()}")
installed_app_path(file) == join(APPLICATIONS_DIR, basename(file))

\* InstallDialog.launch_installed_app: from the installed location.
launch_installed_app(f, file, chmod_ok, popen_ok) ==
    start_process(f, get_app_exec_path(f, installed_app_path(file)), chmod_ok, popen_ok)

\* The ledger not consulted.
first_launch_always(app_path, prompted_apps) == TRUE

\* if app_path not in prompted_apps
first_launch(app_path, prompted_apps) == app_path \notin prompted_apps

\* The two preliminary checks left out.
launch_exec_unchecked(f, l, app_path, exec_path, chmod_ok, popen_ok) ==
    IF first_launch(app_path, get_prompted_apps(l))
    THEN [fs |-> f, ledger |-> l, present |-> TRUE,
          events |-> <<Ev("InstallDialog.present", app_path)>>]
    ELSE [fs |-> f, ledger |-> l, present |-> FALSE,
          events |-> Popen(exec_path, popen_ok)]

\* launch_app_bundle once exec_path is read from the descriptor.
launch_exec(f, l, app_path, exec_path, chmod_ok, popen_ok) ==
    IF exec_path = <<>> \/ ~exists(f, exec_path)
    THEN [fs |-> f, ledger |-> l, present |-> FALSE,
          events |-> <<message_alert("Launch Error",
                                     "Executable not found in .app bundle")>>]
    ELSE IF ~chmod_ok
    THEN [fs |-> f, ledger |-> l, present |-> FALSE,
          events |-> <<message_alert("Launch Error",
                                     "Failed to make binary executable")>>]
    ELSE IF first_launch(app_path, get_prompted_apps(l))
    THEN [fs |-> chmod(f, exec_path), ledger |-> l, present |-> TRUE,
          events |-> <<Ev("InstallDialog.present", app_path)>>]
    ELSE [fs |-> chmod(f, exec_path), ledger |-> l, present |-> FALSE,
          events |-> Popen(exec_path, popen_ok)]

launch_app_bundle(f, l, file, chmod_ok, popen_ok) ==
    launch_exec(f, l, file, get_app_exec_path(f, file), chmod_ok, popen_ok)

\* A handler's result: the marked ledger, and what the launch that follows does.
marked_then(r, l, file, before) ==
    [fs |-> r.fs, ledger |-> mark_app_prompted(l, file), present |-> FALSE,
     events |-> before \o <<Ev("mark_app_prompted", file)>> \o r.events]

\* The result of install_app_bundle not tested.
yes_installed_unchecked(r, l, file, chmod_ok, popen_ok) ==
    marked_then(launch_installed_app(mark_app_prompted_dirs(r.fs), file,
                                     chmod_ok, popen_ok),
                l, file, r.events)

\* if install_app_bundle(self.file): mark_app_prompted; launch_installed_app
yes_installed(r, l, file, chmod_ok, popen_ok) ==
    IF r.ok
    THEN marked_then(launch_installed_app(mark_app_prompted_dirs(r.fs), file,
                                          chmod_ok, popen_ok),
                     l, file, r.events)
    ELSE [fs |-> r.fs, ledger |-> l, present |-> FALSE, events |-> r.events]

on_yes_clicked(f, l, file, fault, kept, chmod_ok, popen_ok) ==
    yes_installed(install_app_bundle(f, file, fault, kept), l, file, chmod_ok, popen_ok)

\* The 'No' button wired to the handler of 'Yes, Install'.
on_no_clicked_installing(f, l, file, chmod_ok, popen_ok) ==
    on_yes_clicked(f, l, file, "none", {}, chmod_ok, popen_ok)

on_no_clicked(f, l, file, chmod_ok, popen_ok) ==
    marked_then(launch_app(mark_app_prompted_dirs(f), file, chmod_ok, popen_ok),
                l, file, <<>>)

\* ------------------------------------------------------------ the bundles on disk

\* A source bundle: its directory, its descriptor, the files beside it, and the files
\* its descriptor names outside it.  A payload file's text is the path it was made at.
Payload(path) == File("644", <<path>>)

BundleFS(b) ==
    LET tree == (b.path :> Dir)
                @@ (join(b.path, <<b.desktop>>) :> File("644", b.lines))
                @@ [q \in {join(b.path, <<n>>) : n \in b.payload} |-> Payload(q)]
        outside == [q \in b.outside |-> Payload(q)]
    IN tree @@ outside

Descriptor(name, exec, icon) ==
    <<SECTION, <<"Name", "=", name>>>> \o exec \o icon

FooDl ==
    [path |-> <<SLASH, "dl", SLASH, "Foo.app">>, desktop |-> "foo.desktop",
     lines |-> Descriptor("Foo", <<<<"Exec", "=", "run">>>>, <<<<"Icon", "=", "icon.png">>>>),
     payload |-> {"run"}, outside |-> {}]

\* The same directory name as FooDl, elsewhere; no Icon key.
FooUsb ==
    [path |-> <<SLASH, "usb", SLASH, "Foo.app">>, desktop |-> "usb.desktop",
     lines |-> Descriptor("FooUsb", <<<<"Exec", "=", "start">>>>, <<>>),
     payload |-> {"start"}, outside |-> {}]

\* The same descriptor file name as FooDl; absolute Exec and Icon.
BarDl ==
    [path |-> <<SLASH, "dl", SLASH, "Bar.app">>, desktop |-> "foo.desktop",
     lines |-> Descriptor("Bar", <<<<"Exec", "=", SLASH, "opt", SLASH, "bar">>>>,
                          <<<<"Icon", "=", SLASH, "opt", SLASH, "bar.png">>>>),
     payload |-> {}, outside |-> {<<SLASH, "opt", SLASH, "bar">>}]

\* No Exec key.
NoxDl ==
    [path |-> <<SLASH, "dl", SLASH, "Nox.app">>, desktop |-> "nox.desktop",
     lines |-> Descriptor("Nox", <<>>, <<>>),
     payload |-> {"run"}, outside |-> {}]

\* An empty Exec.
EmpDl ==
    [path |-> <<SLASH, "dl", SLASH, "Emp.app">>, desktop |-> "emp.desktop",
     lines |-> Descriptor("Emp", <<<<"Exec", "=">>>>, <<<<"Icon", "=">>>>),
     payload |-> {"run"}, outside |-> {}]

\* A descriptor file with no [Desktop Entry] section.
BadDl ==
    [path |-> <<SLASH, "dl", SLASH, "Bad.app">>, desktop |-> "bad.desktop",
     lines |-> <<<<"Name", "=", "Bad">>, <<"Exec", "=", "run">>>>,
     payload |-> {"run"}, outside |-> {}]

\* A bundle in a directory whose name holds a line break.
NewDl ==
    [path |-> <<SLASH, "d", NL, "l", SLASH, "New.app">>, desktop |-> "new.desktop",
     lines |-> Descriptor("New", <<<<"Exec", "=", "run">>>>, <<>>),
     payload |-> {"run"}, outside |-> {}]

\* Exec names a file the bundle does not hold.
GoneDl ==
    [path |-> <<SLASH, "dl", SLASH, "Gone.app">>, desktop |-> "gone.desktop",
     lines |-> Descriptor("Gone", <<<<"Exec", "=", "gone">>>>, <<>>),
     payload |-> {}, outside |-> {}]

\* The sets of bundles a run starts with.
Worlds == {{FooDl}, {BarDl}, {NoxDl}, {EmpDl}, {BadDl}, {NewDl}, {GoneDl}}

WorldFS(w) ==
    LET paths == UNION {DOMAIN BundleFS(b) : b \in w}
        files == [q \in paths |->
                     LET b == CHOOSE b \in w : q \in DOMAIN BundleFS(b) IN BundleFS(b)[q]]
        dirs == UNION {Ancestors(dirname(q)) : q \in paths} \cup Ancestors(HOME)
    IN files @@ [q \in dirs |-> Dir]

\* ------------------------------------------------------------ the state machine

Init ==
    /\ \E w \in Worlds : fs = WorldFS(w)
    /\ ledger = [exists |-> FALSE, text |-> <<>>]
    /\ dialogs = EmptyBag
    /\ events = <<>>

\* The files the file manager offers "Launch Application" for.
Bundles == {p \in DOMAIN fs : is_app_bundle(fs, p)}

\* What the environment may do to an installation of `file`: nothing, or make one
\* step raise; a half-done rmtree leaves any part of the old destination tree, a
\* half-done copytree any part of the new one.
InstallEnvs(file) ==
    {[fault |-> x, kept |-> {}] : x \in InstallFaults \ {"rmtree", "copytree"}}
    \cup {[fault |-> "rmtree", kept |-> k] : k \in SUBSET Rels(fs, dest_path(basename(file)))}
    \cup {[fault |-> "copytree", kept |-> k] : k \in SUBSET Rels(fs, file)}

\* What it may do to a handler that starts a process: refuse the chmod, or make
\* Popen raise.
LaunchEnvs ==
    {[chmod_ok |-> TRUE, popen_ok |-> TRUE], [chmod_ok |-> TRUE, popen_ok |-> FALSE],
     [chmod_ok |-> FALSE, popen_ok |-> TRUE]}

NoFault == [fault |-> "none", kept |-> {}]
AllOk == [chmod_ok |-> TRUE, popen_ok |-> TRUE]

\* The handler `entry` ran: its result r becomes the state, d is the dialogs it
\* leaves open.
Becomes(entry, r, d) ==
    /\ fs' = r.fs
    /\ ledger' = r.ledger
    /\ events' = <<entry>> \o r.events
    /\ dialogs' = d

\* The menu item's activate: launch_app_bundle(file), which may present a dialog.
Presented(r, file) ==
    /\ r.present => BagCardinality(dialogs) < MaxDialogs
    /\ Becomes(Ev("launch_app_bundle", file), r,
               IF r.present THEN dialogs (+) SetToBag({file}) ELSE dialogs)

Launch(file) ==
    \E e \in LaunchEnvs :
        Presented(launch_app_bundle(fs, ledger, file, e.chmod_ok, e.popen_ok), file)

\* 'Yes, Install' clicked in a dialog of `file`; the handler ends with self.close().
Yes(file) ==
    /\ BagIn(file, dialogs)
    /\ Marks(ledger) < MaxMarks
    /\ \E env \in ({NoFault} \X LaunchEnvs) \cup (InstallEnvs(file) \X {AllOk}) :
        Becomes(Ev("on_yes_clicked", file),
                on_yes_clicked(fs, ledger, file, env[1].fault, env[1].kept,
                               env[2].chmod_ok, env[2].popen_ok),
                dialogs (-) SetToBag({file}))

\* 'No' clicked in a dialog of `file`; the handler ends with self.close().
No(file) ==
    /\ BagIn(file, dialogs)
    /\ Marks(ledger) < MaxMarks
    /\ \E e \in LaunchEnvs :
        Becomes(Ev("on_no_clicked", file),
                on_no_clicked(fs, ledger, file, e.chmod_ok, e.popen_ok),
                dialogs (-) SetToBag({file}))

\* The close button wired to the handler of 'No'.
Dismiss_declining(file) ==
    /\ BagIn(file, dialogs)
    /\ \E e \in LaunchEnvs :
        Becomes(Ev("dismiss", file),
                on_no_clicked(fs, ledger, file, e.chmod_ok, e.popen_ok),
                dialogs (-) SetToBag({file}))

\* The dialog closed by its header bar's close button: no handler of the program runs.
Dismiss(file) ==
    /\ BagIn(file, dialogs)
    /\ dialogs' = dialogs (-) SetToBag({file})
    /\ events' = <<Ev("dismiss", file)>>
    /\ UNCHANGED <<fs, ledger>>

\* install_app_bundle marking the path it installed.
Installs_marking(r) ==
    /\ fs' = r.fs
    /\ events' = <<Ev("install_app_bundle", r.events[1].arg)>> \o r.events
    /\ ledger' = IF r.ok THEN mark_app_prompted(ledger, r.events[1].arg) ELSE ledger
    /\ UNCHANGED dialogs

\* install_app_bundle(file) called on its own.
Installs(r) ==
    /\ fs' = r.fs
    /\ events' = <<Ev("install_app_bundle", r.events[1].arg)>> \o r.events
    /\ UNCHANGED <<ledger, dialogs>>

Install(file) ==
    \E e \in InstallEnvs(file) : Installs(install_app_bundle(fs, file, e.fault, e.kept))

\* The file manager is restarted: the open dialogs are gone, the files stay.
Restart ==
    /\ dialogs' = EmptyBag
    /\ events' = <<>>
    /\ UNCHANGED <<fs, ledger>>

Next ==
    \/ \E file \in Bundles : Launch(file)
    \/ \E file \in BagToSet(dialogs) : Yes(file)
    \/ \E file \in BagToSet(dialogs) : No(file)
    \/ \E file \in BagToSet(dialogs) : Dismiss(file)
    \/ \E file \in Bundles : Install(file)
    \/ Restart

Spec == Init /\ [][Next]_vars

\* ------------------------------------------------------------ two bundles on disk

\* Two bundles with the same directory name, and two with the same descriptor file
\* name.
PairWorlds == {{FooDl, FooUsb}, {FooDl, BarDl}}

InitPair ==
    /\ \E w \in PairWorlds : fs = WorldFS(w)
    /\ ledger = [exists |-> FALSE, text |-> <<>>]
    /\ dialogs = EmptyBag
    /\ events = <<>>

\* install_app_bundle called on its own on either bundle, in any order.
NextPair ==
    \/ \E file \in Bundles : Install(file)
    \/ Restart

SpecPair == InitPair /\ [][NextPair]_vars

\* ------------------------------------------------------------ reading a step

\* PromptLedger.HasBeenPrompted.
HasBeenPrompted(path) == path \in get_prompted_apps(ledger)

\* The handler `h` ran on `file` and left the events evs.
Ran(evs, h, file) == evs # <<>> /\ evs[1] = Ev(h, file)

\* The places in evs of the calls named op.
Calls(evs, op) == {i \in DOMAIN evs : evs[i].op = op}

\* The places in evs where a process is started.
Started(evs) == Calls(evs, "Popen") \cup Calls(evs, "Popen_raised")

\* The launch stopped at one of its two preliminary checks.
PrelimFailed(evs) ==
    \E i \in Calls(evs, "message_alert") :
        evs[i].arg[2] \in {"Executable not found in .app bundle",
                           "Failed to make binary executable"}

\* The executable of `file` resolved against `root`, from the descriptor in f.
Resolved(f, file, root) ==
    IF isabs(parse_desktop_file(f, file).Exec) THEN parse_desktop_file(f, file).Exec
    ELSE root \o <<SLASH>> \o parse_desktop_file(f, file).Exec

\* ~/Applications/<bundle name>.
InstalledRoot(file) == APPLICATIONS_DIR \o <<SLASH>> \o basename(file)

\* What is installed: the kind and the text of every entry below ~/Applications and
\* of the registry directory.
Installed(f) ==
    [q \in {r \in DOMAIN f : Under(APPLICATIONS_DIR, r) \/ Under(REGISTRY_DIR, r)}
        |-> <<f[q].kind, f[q].data>>]

\* ------------------------------------------------------------ C1

C1_Step(file) ==
    (Ran(events', "on_yes_clicked", file) /\ Calls(events', "install_True") # {})
    => /\ ledger'.exists
       /\ ledger'.text = ledger.text \o file \o <<NL>>
       /\ \A j \in Started(events') :
            /\ \E i \in 1..(j - 1) : events'[i] = Ev("mark_app_prompted", file)
            /\ events'[j].arg = Resolved(fs, file, InstalledRoot(file))
            /\ ~isabs(parse_desktop_file(fs, file).Exec)
                  => /\ IsPrefix(InstalledRoot(file) \o <<SLASH>>, events'[j].arg)
                     /\ ~IsPrefix(file \o <<SLASH>>, events'[j].arg)

\* C1: when 'Yes, Install' is handled and the installation succeeds, the bundle's path
\* is appended to the ledger before any process is started, and a process that is
\* started is the executable resolved against ~/Applications/<bundle name>, not
\* against the source tree (for a relative Exec).
C1_AcceptMarksThenLaunchesInstalled ==
    [][events' # <<>> => C1_Step(events'[1].arg)]_vars

\* An accepted installation of a bundle outside ~/Applications with a relative Exec
\* succeeded, the ledger was marked and the installed executable was started.
C1_Witness ==
    /\ events # <<>>
    /\ events[1].op = "on_yes_clicked"
    /\ ~IsPrefix(APPLICATIONS_DIR, events[1].arg)
    /\ ~isabs(parse_desktop_file(fs, events[1].arg).Exec)
    /\ Calls(events, "install_True") # {}
    /\ Calls(events, "mark_app_prompted") # {}
    /\ \E j \in Calls(events, "Popen") :
           IsPrefix(InstalledRoot(events[1].arg) \o <<SLASH>>, events[j].arg)
    /\ HasBeenPrompted(events[1].arg)

\* ------------------------------------------------------------ C2

C2_Failed(file) ==
    (Ran(events', "on_yes_clicked", file) /\ Calls(events', "install_False") # {})
    => /\ ledger' = ledger
       /\ Started(events') = {}
       /\ Calls(events', "mark_app_prompted") = {}
       /\ ~HasBeenPrompted(file) => file \notin get_prompted_apps(ledger')

C2_Again(file) ==
    (Ran(events', "launch_app_bundle", file) /\ ~HasBeenPrompted(file)
        /\ ~PrelimFailed(events'))
    => /\ events' = <<Ev("launch_app_bundle", file), Ev("InstallDialog.present", file)>>
       /\ BagIn(file, dialogs')

\* C2: when the installation fails after 'Yes, Install' (descriptor unreadable, or a
\* step of the copy or the write raising), the ledger is left as it was and no
\* process is started; the bundle stays unprompted, and a launch of an unprompted
\* bundle that passes its preliminary checks presents the install dialog.
C2_FailedInstallLeavesUnprompted ==
    [][events' # <<>> => C2_Failed(events'[1].arg) /\ C2_Again(events'[1].arg)]_vars

\* 'Yes, Install' was handled for a bundle that is still on disk, the installation
\* failed, and the bundle is unprompted with no ledger written.
C2_Witness ==
    /\ events # <<>>
    /\ events[1].op = "on_yes_clicked"
    /\ Calls(events, "install_False") # {}
    /\ ~HasBeenPrompted(events[1].arg)
    /\ is_app_bundle(fs, events[1].arg)
    /\ ~ledger.exists

\* ------------------------------------------------------------ C4

C4_Step(file) ==
    (Ran(events', "launch_app_bundle", file) /\ HasBeenPrompted(file))
    => /\ Calls(events', "InstallDialog.present") = {}
       /\ dialogs' = dialogs
       /\ Calls(events', "install_True") \cup Calls(events', "install_False") = {}
       /\ Installed(fs') = Installed(fs)
       /\ ledger' = ledger
       /\ \A j \in Started(events') : events'[j].arg = Resolved(fs, file, file)
       /\ ~PrelimFailed(events') => Started(events') # {}

\* C4: a launch of a bundle whose path the ledger holds presents no dialog, installs
\* nothing, leaves the ledger unchanged, and (its preliminary checks passed) starts
\* the executable resolved against the source location, never the installed copy.
C4_PromptedLaunchesFromSource ==
    [][events' # <<>> => C4_Step(events'[1].arg)]_vars

\* A bundle that was installed on 'Yes, Install' is launched again: the process is
\* started from the source tree although the installed copy exists.
C4_Witness ==
    /\ events # <<>>
    /\ events[1].op = "launch_app_bundle"
    /\ HasBeenPrompted(events[1].arg)
    /\ ~IsPrefix(APPLICATIONS_DIR, events[1].arg)
    /\ exists(fs, Resolved(fs, events[1].arg, InstalledRoot(events[1].arg)))
    /\ \E j \in Calls(events, "Popen") : IsPrefix(events[1].arg \o <<SLASH>>, events[j].arg)

\* ------------------------------------------------------------ C8

\* The value of `key` in the registry descriptor of `file`.
RegistryField(f, file, key) ==
    entry_get(f[REGISTRY_DIR \o <<SLASH>> \o basename(get_desktop_file_path(f, file))].data,
              key, <<"(none)">>)

\* install_app_bundle(file) wrote the registry descriptor in this step.
Wrote(evs, file) ==
    \E i \in DOMAIN evs :
        /\ evs[i].arg = file
        /\ \/ evs[i].op = "install_True"
           \/ evs[i].op = "install_False" /\ evs[i].fault = "chmod"

C8_Field(file, key, raw, empty) ==
    /\ raw = <<>> => RegistryField(fs', file, key) = empty
    /\ isabs(raw) => RegistryField(fs', file, key) = raw
    /\ (raw # <<>> /\ ~isabs(raw))
          => /\ RegistryField(fs', file, key) = InstalledRoot(file) \o <<SLASH>> \o raw
             /\ ~IsPrefix(file \o <<SLASH>>, RegistryField(fs', file, key))

C8_Step(file) ==
    Wrote(events', file)
    => /\ C8_Field(file, "Exec", parse_desktop_file(fs, file).Exec,
                   InstalledRoot(file) \o <<SLASH>>)
       /\ C8_Field(file, "Icon", parse_desktop_file(fs, file).Icon,
                   <<"application-x-executable">>)
       /\ isabs(RegistryField(fs', file, "Exec"))

\* C8: in the registry descriptor install_app_bundle writes, an Exec or Icon that is
\* relative in the source descriptor is the field joined to ~/Applications/<bundle
\* name> (not to the source root), an absolute one is kept as it is, and an empty
\* Icon becomes application-x-executable.
C8_RegistryFieldsResolved ==
    [][events' # <<>> => C8_Step(events'[1].arg)]_vars

\* A bundle with a relative Exec and a relative Icon was installed from outside
\* ~/Applications and its registry descriptor holds both under ~/Applications.
C8_Witness ==
    \E file \in Bundles :
        /\ Wrote(events, file)
        /\ ~IsPrefix(APPLICATIONS_DIR, file)
        /\ parse_desktop_file(fs, file).Exec = <<"run">>
        /\ parse_desktop_file(fs, file).Icon = <<"icon.png">>
        /\ RegistryField(fs, file, "Exec") = InstalledRoot(file) \o <<SLASH, "run">>
        /\ RegistryField(fs, file, "Icon") = InstalledRoot(file) \o <<SLASH, "icon.png">>

\* ------------------------------------------------------------ C3

\* No alert was shown in the step: the environment refused nothing.
Quiet(evs) == Calls(evs, "message_alert") = {}

C3_Step(file) ==
    (Ran(events', "on_no_clicked", file) /\ ~HasBeenPrompted(file) /\ Quiet(events'))
    => /\ ledger'.text = ledger.text \o file \o <<NL>>
       /\ Installed(fs') = Installed(fs)
       /\ Started(events') # {}
       /\ \A j \in Started(events') : events'[j].arg = Resolved(fs, file, file)
       /\ file \in get_prompted_apps(ledger')

C3_Later(file) ==
    (Ran(events', "launch_app_bundle", file) /\ HasBeenPrompted(file))
    => Calls(events', "InstallDialog.present") = {}

\* C3: when 'No, Just Launch' is handled for an unprompted bundle, the bundle's path
\* is appended to the ledger, nothing below ~/Applications or the registry directory
\* is created or changed, the executable resolved against the source tree is started,
\* and the path reads back as prompted, so that no later launch presents a dialog.
C3_DeclineMarksAndLaunchesSource ==
    [][events' # <<>> => C3_Step(events'[1].arg) /\ C3_Later(events'[1].arg)]_vars

\* ------------------------------------------------------------ C5

C5_Step ==
    /\ \A i \in Calls(events', "mark_app_prompted") :
           events'[i].arg \in get_prompted_apps(ledger')
    /\ \A B \in get_prompted_apps(ledger) : B \in get_prompted_apps(ledger')
    /\ ~ledger'.exists => get_prompted_apps(ledger') = {}

\* C5: a path that mark_app_prompted has appended is returned by get_prompted_apps
\* from then on, whatever handler or restart follows; with no ledger file
\* get_prompted_apps returns nothing.
C5_LedgerMonotone == [][C5_Step]_vars

\* ------------------------------------------------------------ C6

\* No name on disk has a line break in it.
Plain == \A q \in DOMAIN fs : \A i \in DOMAIN q : q[i] # NL

\* The descriptors in the registry directory.
RegistryFiles(f) == {q \in DOMAIN f : Under(REGISTRY_DIR, q)}

\* The Exec line of the registry descriptor d.
RegisteredExec(f, d) == entry_get(f[d].data, "Exec", <<>>)

\* The registry descriptor d points to an executable file that exists.
Completed(f, d) ==
    /\ exists(f, RegisteredExec(f, d))
    /\ f[Norm(RegisteredExec(f, d))].kind = "file"

\* The entries of the installed tree the registry descriptor d points into.
TreeOf(f, d) ==
    {q \in DOMAIN f :
        /\ Under(APPLICATIONS_DIR, q)
        /\ Under(APPLICATIONS_DIR, RegisteredExec(f, d))
        /\ SubSeq(q, 1, Len(APPLICATIONS_DIR) + 2)
             = SubSeq(RegisteredExec(f, d), 1, Len(APPLICATIONS_DIR) + 2)}

C6_Kept(d) ==
    /\ d \in DOMAIN fs'
    /\ fs'[d].data = fs[d].data
    /\ Completed(fs', d)
    /\ \A q \in TreeOf(fs, d) : q \in DOMAIN fs' /\ fs'[q].data = fs[q].data

\* C6: when install_app_bundle on a bundle outside ~/Applications returns False (no
\* name on disk having a line break), every registry descriptor that pointed to an
\* existing executable file before the call is unchanged and still points to an
\* existing executable file, and the installed tree it points into has kept every
\* entry.
C6_FailedInstallKeepsInstalled ==
    [][(Calls(events', "install_False") # {} /\ Plain
            /\ ~IsPrefix(APPLICATIONS_DIR, events'[1].arg))
          => \A d \in RegistryFiles(fs) : Completed(fs, d) => C6_Kept(d)]_vars

\* ------------------------------------------------------------ C7

\* Name and Exec are read and not empty.
ValidDescriptor(f, file) ==
    /\ parse_desktop_file(f, file).some
    /\ parse_desktop_file(f, file).Name # <<>>
    /\ parse_desktop_file(f, file).Exec # <<>>

\* No step of the handler was made to raise by the environment.
NoFaults(evs) == \A i \in DOMAIN evs : evs[i].fault = "none"

C7_Second(f, r) == r.ok /\ Installed(r.fs) = Installed(f)

C7_Step(file) ==
    (Ran(events', "install_app_bundle", file) /\ ValidDescriptor(fs, file)
        /\ Plain /\ NoFaults(events'))
    => /\ Calls(events', "install_True") # {}
       /\ C7_Second(fs', install_app_bundle(fs', file, "none", {}))

\* C7: for a bundle with a valid descriptor (no name on disk having a line break),
\* install_app_bundle with nothing refused by the environment returns True, and called
\* again at once returns True and leaves ~/Applications and the registry directory as
\* the first call left them.
C7_InstallIdempotent == [][events' # <<>> => C7_Step(events'[1].arg)]_vars

\* ------------------------------------------------------------ C9

\* The descriptor of `file` is read and has no Exec, or an empty one.
NoExec(f, file) ==
    /\ get_desktop_file_path(f, file) # <<>>
    /\ parse_desktop_file(f, file).some
    /\ parse_desktop_file(f, file).Exec = <<>>

C9_Install(file) ==
    (Ran(events', "install_app_bundle", file) /\ NoFaults(events'))
    => /\ Calls(events', "install_True") = {}
       /\ \E i \in Calls(events', "message_alert") :
              events'[i].arg[2] = "Failed to read .desktop file from app bundle"
       /\ DOMAIN Installed(fs') = DOMAIN Installed(fs)

C9_Launch(file) ==
    Ran(events', "launch_app_bundle", file)
    => /\ events'[2] = message_alert("Launch Error", "Executable not found in .app bundle")
       /\ Calls(events', "InstallDialog.present") = {}
       /\ Started(events') = {}
       /\ dialogs' = dialogs

\* C9: a directory named *.app whose descriptor has no Exec key, or an empty one, is
\* an app bundle; install_app_bundle on it returns False with the descriptor reported
\* unreadable and creates nothing below ~/Applications or the registry directory; and
\* launch_app_bundle on it reports 'Executable not found', presents no dialog and
\* starts no process.
C9_NoExec ==
    [][(events' # <<>> /\ NoExec(fs, events'[1].arg))
          => /\ is_app_bundle(fs, events'[1].arg)
             /\ C9_Install(events'[1].arg)
             /\ C9_Launch(events'[1].arg)]_vars

\* ------------------------------------------------------------ C10

\* os.chmod on the installed executable raised in this step.
ChmodRefused(evs) == \E i \in DOMAIN evs : evs[i].fault = "chmod"

C10_Step(file) ==
    (ChmodRefused(events') /\ ValidDescriptor(fs, file) /\ Plain)
    => /\ Calls(events', "install_False") = {}
       /\ Calls(events', "install_True") # {}
       /\ Ran(events', "on_yes_clicked", file)
            => /\ ledger'.text = ledger.text \o file \o <<NL>>
               /\ Calls(events', "mark_app_prompted") # {}
               /\ Started(events') # {}

\* C10: when os.chmod on the installed executable raises (valid descriptor, no line
\* break in a name on disk), install_app_bundle still returns True, and on
\* 'Yes, Install' the ledger is marked and the installed application is launched.
C10_ChmodNotFatal == [][events' # <<>> => C10_Step(events'[1].arg)]_vars

\* ------------------------------------------------------------ C11

\* The resolved source executable of `file` is missing.
ExecMissing(f, file) ==
    get_app_exec_path(f, file) = <<>> \/ ~exists(f, get_app_exec_path(f, file))

\* The launch changed nothing and started nothing.
C11_Frame ==
    /\ Calls(events', "InstallDialog.present") = {}
    /\ Started(events') = {}
    /\ Calls(events', "install_True") \cup Calls(events', "install_False") = {}
    /\ Calls(events', "mark_app_prompted") = {}
    /\ ledger' = ledger
    /\ dialogs' = dialogs
    /\ fs' = fs

C11_Step(file) ==
    Ran(events', "launch_app_bundle", file)
    => /\ ExecMissing(fs, file)
            => /\ events' = <<Ev("launch_app_bundle", file),
                              message_alert("Launch Error",
                                            "Executable not found in .app bundle")>>
               /\ C11_Frame
       /\ PrelimFailed(events') => Len(events') = 2 /\ C11_Frame

\* C11: a launch whose resolved source executable is missing reports 'Executable not
\* found', and a launch that reports it or 'Failed to make binary executable' does
\* nothing else: no dialog, no process, no install, no mark, and the ledger, the open
\* dialogs and the file system stay as they were, whether the path is in the ledger
\* or not.
C11_FailedChecksChangeNothing ==
    [][events' # <<>> => C11_Step(events'[1].arg)]_vars

\* A launch of a bundle that is in the ledger stopped at a preliminary check.
C11_Witness ==
    /\ events # <<>>
    /\ events[1].op = "launch_app_bundle"
    /\ PrelimFailed(events)
    /\ HasBeenPrompted(events[1].arg)

\* ------------------------------------------------------------ C12

\* The places in the ledger's text where `path` and a line break were appended.
Written(l, path) ==
    {i \in 1..Len(l.text) :
        /\ i + Len(path) <= Len(l.text)
        /\ SubSeq(l.text, i, i + Len(path)) = path \o <<NL>>
        /\ (i = 1 \/ l.text[i - 1] = NL)}

\* A path once returned by get_prompted_apps is returned ever after.
StaysPrompted == \A B \in get_prompted_apps(ledger) : B \in get_prompted_apps(ledger')

C12_Once ==
    /\ Plain => \A i \in Calls(events', "mark_app_prompted") :
                    Written(ledger, events'[i].arg) = {}
    /\ StaysPrompted

\* C12 as stated: mark_app_prompted is performed for a path at most once (on disks
\* with no line break in a name), and a path that get_prompted_apps returns is
\* returned ever after.
C12_MarkedAtMostOnce == [][C12_Once]_vars

C12_Marks(file) ==
    /\ Cardinality(Calls(events', "mark_app_prompted")) = 1
    /\ events'[1].op \in {"on_yes_clicked", "on_no_clicked"}
    /\ \A i \in Calls(events', "mark_app_prompted") : events'[i].arg = file
    /\ BagIn(file, dialogs)
    /\ dialogs' = dialogs (-) SetToBag({file})
    /\ ledger'.text = ledger.text \o file \o <<NL>>

C12_PerDialog ==
    /\ StaysPrompted
    /\ \A i \in Calls(events', "InstallDialog.present") :
           /\ ~HasBeenPrompted(events'[i].arg)
           /\ dialogs' = dialogs (+) SetToBag({events'[i].arg})
    /\ IF Calls(events', "mark_app_prompted") = {} THEN ledger' = ledger
       ELSE C12_Marks(events'[1].arg)

\* C12 amended: a path that get_prompted_apps returns is returned ever after; a dialog
\* is presented only for a path it does not return; and mark_app_prompted is performed
\* only by the Yes or No handler of an open dialog, once, for that dialog's path,
\* closing the dialog: once per presented dialog, not once per path.
C12_MarkedOncePerDialog == [][C12_PerDialog]_vars

\* Two dialogs were open on one path and both were answered: the ledger holds the
\* path twice.
C12_Witness ==
    /\ events # <<>>
    /\ events[1].op \in {"on_yes_clicked", "on_no_clicked"}
    /\ Plain
    /\ ledger.text = events[1].arg \o <<NL>> \o events[1].arg \o <<NL>>
    /\ HasBeenPrompted(events[1].arg)

\* ------------------------------------------------------------ C13

C13_Step ==
    /\ StaysPrompted
    /\ \A i \in Calls(events', "mark_app_prompted") :
           Written(ledger, events'[i].arg) # {}
              => get_prompted_apps(ledger') = get_prompted_apps(ledger)

\* C13: when mark_app_prompted appends a path the ledger already holds (two dialogs
\* were opened on it before either was answered), get_prompted_apps returns the same
\* set as after the first append, and no step removes a path from the set it returns.
C13_SecondAppendChangesNoAnswer == [][C13_Step]_vars

\* Two dialogs were open on one unprompted bundle; the first was answered Yes (the
\* tree is installed), the second No: the ledger holds the path twice and the path is
\* prompted.
C13_Witness ==
    /\ events # <<>>
    /\ events[1].op = "on_no_clicked"
    /\ Cardinality(Written(ledger, events[1].arg)) = 2
    /\ isdir(fs, InstalledRoot(events[1].arg))
    /\ ~IsPrefix(APPLICATIONS_DIR, events[1].arg)
    /\ get_prompted_apps(ledger) = {events[1].arg}

\* ------------------------------------------------------------ C14

\* The tree below root: the kind and the text of every entry, by its relative path.
TreeImage(f, root) ==
    [r \in Rels(f, root) |-> <<f[root \o r].kind, f[root \o r].data>>]

C14_Step(file) ==
    (Ran(events', "install_app_bundle", file) /\ Calls(events', "install_True") # {})
    => /\ isdir(fs', InstalledRoot(file))
       /\ TreeImage(fs', InstalledRoot(file)) = TreeImage(fs, file)

\* C14: after install_app_bundle(file) has returned True, the tree at
\* ~/Applications/<bundle name> holds exactly the entries of the source tree, with
\* their kind and text, and no entry of what was there before.
C14_DestinationIsCopy == [][events' # <<>> => C14_Step(events'[1].arg)]_vars

\* /usb/Foo.app was installed over the tree /dl/Foo.app had been installed to (its
\* registry descriptor foo.desktop is still there): the tree holds start and
\* usb.desktop only.
C14_Witness ==
    /\ events # <<>>
    /\ events[1] = Ev("install_app_bundle", FooUsb.path)
    /\ Calls(events, "install_True") # {}
    /\ exists(fs, REGISTRY_DIR \o <<SLASH, "foo.desktop">>)
    /\ Rels(fs, InstalledRoot(FooUsb.path)) = {<<SLASH, "start">>, <<SLASH, "usb.desktop">>}

\* ------------------------------------------------------------ C15

\* install_app_bundle(file) ran in this step, on its own or from 'Yes, Install'.
InstallRan(evs, file) ==
    /\ Ran(evs, "install_app_bundle", file) \/ Ran(evs, "on_yes_clicked", file)
    /\ Calls(evs, "install_True") \cup Calls(evs, "install_False") # {}

C15_Step(file) ==
    (InstallRan(events', file) /\ ValidDescriptor(fs, file) /\ NoFaults(events') /\ Plain)
    => /\ isdir(fs', file)
       /\ TreeImage(fs', file) = TreeImage(fs, file)

\* C15: install_app_bundle(file), whether it returns True or False (valid descriptor,
\* nothing refused by the environment, no line break in a name on disk), leaves the source tree as it
\* was: the same entries with the same kind and text, also when the source is
\* ~/Applications/<bundle name> itself.
C15_SourceUntouched == [][events' # <<>> => C15_Step(events'[1].arg)]_vars

\* ------------------------------------------------------------ C16

\* The registry descriptor install_app_bundle writes for the source bundle A.
RegistryOf(f, A) == REGISTRY_DIR \o <<SLASH>> \o basename(get_desktop_file_path(f, A))

\* The source bundle A (outside ~/Applications) is installed: its tree is at
\* ~/Applications/<name> and its registry descriptor's Exec is its own.
InstalledOK(f, A) ==
    /\ ~IsPrefix(APPLICATIONS_DIR, A)
    /\ ValidDescriptor(f, A)
    /\ isdir(f, InstalledRoot(A))
    /\ TreeImage(f, InstalledRoot(A)) = TreeImage(f, A)
    /\ RegistryOf(f, A) \in DOMAIN f
    /\ RegistryField(f, A, "Exec") = Resolved(f, A, InstalledRoot(A))

C16_Step(B) ==
    (Ran(events', "install_app_bundle", B) /\ Calls(events', "install_True") # {}
        /\ ~IsPrefix(APPLICATIONS_DIR, B))
    => \A A \in Bundles \ {B} :
          InstalledOK(fs, A)
             => /\ InstalledOK(fs', A)
                /\ fs'[RegistryOf(fs, A)].data = fs[RegistryOf(fs, A)].data

\* C16: when install_app_bundle(B) returns True, every other source bundle A that was
\* installed before the call (its tree at ~/Applications/<name of A> a copy of A, its
\* registry descriptor's Exec pointing into that tree) is still installed after it,
\* with its registry descriptor unchanged.
C16_OtherInstallationKept == [][events' # <<>> => C16_Step(events'[1].arg)]_vars

\* ------------------------------------------------------------ C17

\* The places in evs where install_app_bundle returned.
InstallCalls(evs) == Calls(evs, "install_True") \cup Calls(evs, "install_False")

C17_Unprompted(file) ==
    (Ran(events', "on_yes_clicked", file) /\ InstallCalls(events') # {} /\ Plain)
    => ~HasBeenPrompted(file)

\* C17 as stated: when 'Yes, Install' is handled and install_app_bundle runs, the
\* path is not in the ledger (on disks with no line break in a name).
C17_InstallOnlyWhileUnprompted ==
    [][events' # <<>> => C17_Unprompted(events'[1].arg)]_vars

C17_Flow(file) ==
    /\ events'[1].op \in {"launch_app_bundle", "on_no_clicked", "dismiss"}
          => InstallCalls(events') = {} /\ Installed(fs') = Installed(fs)
    /\ events'[1].op = "on_yes_clicked"
          => /\ BagIn(file, dialogs)
             /\ Cardinality(InstallCalls(events')) = 1
             /\ \A i \in InstallCalls(events') : events'[i].arg = file
    /\ \A i \in Calls(events', "InstallDialog.present") :
          /\ events'[1].op = "launch_app_bundle"
          /\ events'[i].arg = file
          /\ ~HasBeenPrompted(file)
          /\ dialogs' = dialogs (+) SetToBag({file})

\* C17 amended: in the launch flow install_app_bundle runs only in the handler of
\* 'Yes, Install' of an open dialog, once, for that dialog's path, and a dialog is
\* presented only by a launch of a path that is not in the ledger at that moment; the
\* ledger is not read again when the answer is handled.
C17_InstallOnlyFromPresentedDialog ==
    [][events' # <<>> => C17_Flow(events'[1].arg)]_vars

\* 'Yes, Install' installed a path the ledger already held: the path is in it twice.
C17_Witness ==
    /\ events # <<>>
    /\ events[1].op = "on_yes_clicked"
    /\ Calls(events, "install_True") # {}
    /\ Plain
    /\ Cardinality(Written(ledger, events[1].arg)) = 2

\* ------------------------------------------------------------ C18

C18_Dismissed(file) ==
    Ran(events', "dismiss", file)
    => /\ BagIn(file, dialogs)
       /\ dialogs' = dialogs (-) SetToBag({file})
       /\ events' = <<Ev("dismiss", file)>>
       /\ ledger' = ledger
       /\ fs' = fs
       /\ ~HasBeenPrompted(file) => file \notin get_prompted_apps(ledger')

C18_Next(file) ==
    (Ran(events', "launch_app_bundle", file) /\ ~HasBeenPrompted(file)
        /\ ~ExecMissing(fs, file) /\ Quiet(events'))
    => /\ Calls(events', "InstallDialog.present") # {}
       /\ BagIn(file, dialogs')
       /\ Started(events') = {}

\* C18: closing an InstallDialog by its close button runs no handler: the ledger and
\* the file system (so ~/Applications and the registry directory) are unchanged and
\* no process is started; an unprompted path stays unprompted, and a launch of an
\* unprompted path whose executable exists and can be made executable presents the
\* dialog.
C18_DismissChangesNothing ==
    [][events' # <<>> => C18_Dismissed(events'[1].arg) /\ C18_Next(events'[1].arg)]_vars

\* A dialog on an unprompted bundle was dismissed: the bundle is still on disk and
\* unprompted, and no dialog is open.
C18_Witness ==
    /\ events # <<>>
    /\ events[1].op = "dismiss"
    /\ ~HasBeenPrompted(events[1].arg)
    /\ is_app_bundle(fs, events[1].arg)
    /\ ~ExecMissing(fs, events[1].arg)
    /\ dialogs = EmptyBag

\* ------------------------------------------------------------ C19

C19_Install(file) ==
    Ran(events', "install_app_bundle", file)
    => /\ ledger' = ledger
       /\ Calls(events', "mark_app_prompted") = {}
       /\ dialogs' = dialogs
       /\ HasBeenPrompted(file) <=> file \in get_prompted_apps(ledger')

C19_Launch(file) ==
    (Ran(events', "launch_app_bundle", file) /\ ~HasBeenPrompted(file)
        /\ isdir(fs, InstalledRoot(file)) /\ ~PrelimFailed(events'))
    => events' = <<Ev("launch_app_bundle", file), Ev("InstallDialog.present", file)>>

\* C19: install_app_bundle called on its own, returning True or False, leaves the
\* ledger as it was and marks nothing, so the path is prompted after the call exactly
\* when it was before; and a launch of an unprompted path whose tree is installed
\* (its preliminary checks passed) presents the install dialog.
C19_InstallLeavesLedger ==
    [][events' # <<>> => C19_Install(events'[1].arg) /\ C19_Launch(events'[1].arg)]_vars

\* A bundle was installed by install_app_bundle alone (no ledger was ever written)
\* and its launch has presented the install dialog.
C19_Witness ==
    /\ events # <<>>
    /\ events[1].op = "launch_app_bundle"
    /\ Calls(events, "InstallDialog.present") # {}
    /\ ~IsPrefix(APPLICATIONS_DIR, events[1].arg)
    /\ InstalledOK(fs, events[1].arg)
    /\ ~ledger.exists

====
